---- MODULE Spec2Model ----
(***************************************************************************)
(* Model of the Invoices desktop host shell (src-tauri/src/lib.rs):        *)
(* the get_sidecar_port command, the setup closure of run() (tray, close   *)
(* guard, sidecar spawn) and the two event handlers it installs.           *)
(***************************************************************************)
EXTENDS Integers, Sequences, FiniteSets, TLC

VARIABLES
    production,       \* cfg(not(debug_assertions)): release build
    trayOk,           \* the fallible tray calls (the `?`s and the icon unwrap) succeed
    sidecarCreateOk,  \* shell().sidecar(..) returns Ok
    sidecarSpawnOk,   \* sidecar_command.spawn() returns Ok
    pc,               \* position of the host process in run()
    exitCode,         \* {} while alive, {status} once the process has ended
    trayBuilt,        \* tray icon with its menu handler is attached
    guardInstalled,   \* on_window_event closure is registered on "main"
    windowExists,     \* the webview window labelled "main" exists
    visible,          \* main window visibility
    focused,          \* main window is the foreground window
    sidecarCommands,  \* number of sidecar commands created
    spawnCalls,       \* number of spawn() calls made
    sidecars,         \* number of worker processes spawned
    childHeld,        \* the (_rx, _child) binding is alive
    eventLog,         \* menu / window events handled so far, oldest first
    visLog,           \* visibility after construction and after each handled event
    portFile,         \* {temp_dir}/invoices-sidecar-port
    portResult,       \* <<>> or <<value returned by the last get_sidecar_port call>>
    callLog           \* get_sidecar_port calls so far: file read, file left, result

vars == <<production, trayOk, sidecarCreateOk, sidecarSpawnOk, pc, exitCode,
          trayBuilt, guardInstalled, windowExists, visible, focused,
          sidecarCommands, spawnCalls, sidecars, childHeld, eventLog, visLog,
          portFile, portResult, callLog>>

envVars == <<production, trayOk, sidecarCreateOk, sidecarSpawnOk>>
windowVars == <<windowExists, visible, focused>>
sidecarVars == <<sidecarCommands, spawnCalls, sidecars, childHeld>>
portVars == <<portFile, portResult, callLog>>

\* ---------------------------------------------------------------- bounds
MaxEvents == 4
MaxLen == 5
MaxCalls == 2

\* ------------------------------------------------------------- constants
U16Max == 65535
DefaultPort == 3001
ExitOk == 0
PanicExitCode == 101

\* ------------------------------------------------------ get_sidecar_port
Digits == <<"0", "1", "2", "3", "4", "5", "6", "7", "8", "9">>
Whitespace == {" ", "\n"}
Alphabet == {"0", "3", "5", "6", " ", "\n", "+", "-", "x"}

Ok(v) == [ok |-> TRUE, val |-> v]
Err == [ok |-> FALSE, val |-> 0]

\* char::is_whitespace
is_whitespace(c) == c \in Whitespace

RECURSIVE trim_start(_)
trim_start(s) ==
    IF s # <<>> /\ is_whitespace(Head(s)) THEN trim_start(Tail(s)) ELSE s

RECURSIVE trim_end(_)
trim_end(s) ==
    IF s # <<>> /\ is_whitespace(s[Len(s)])
    THEN trim_end(SubSeq(s, 1, Len(s) - 1))
    ELSE s

\* trim with trim_start in its place: trailing whitespace stays
trim_start_only(s) == trim_start(s)

\* str::trim
trim(s) == trim_end(trim_start(s))

\* char::to_digit(10)
to_digit(c) ==
    IF \E d \in 1..10 : Digits[d] = c
    THEN Ok((CHOOSE d \in 1..10 : Digits[d] = c) - 1)
    ELSE Err

\* the digit loop with wrapping arithmetic in place of the checked operations
RECURSIVE parse_digits_wrapping(_, _)
parse_digits_wrapping(acc, s) ==
    IF s = <<>> THEN Ok(acc)
    ELSE LET d == to_digit(Head(s)) IN
         IF ~d.ok THEN Err
         ELSE parse_digits_wrapping((acc * 10 + d.val) % (U16Max + 1), Tail(s))

\* the digit loop of u16::from_str_radix: checked_mul, then checked_add
RECURSIVE parse_digits(_, _)
parse_digits(acc, s) ==
    IF s = <<>> THEN Ok(acc)
    ELSE LET d == to_digit(Head(s)) IN
         IF ~d.ok THEN Err
         ELSE IF acc * 10 > U16Max THEN Err
         ELSE IF acc * 10 + d.val > U16Max THEN Err
         ELSE parse_digits(acc * 10 + d.val, Tail(s))

\* <u16 as FromStr>::from_str: an unsigned type takes a leading "+" but no "-"
parse_u16(s) ==
    IF s = <<>> THEN Err
    ELSE IF Len(s) = 1 /\ s[1] \in {"+", "-"} THEN Err
    ELSE IF s[1] = "+" THEN parse_digits(0, Tail(s))
    ELSE parse_digits(0, s)

\* unwrap_or with unwrap_or_default in its place
unwrap_or_default(r, default) == IF r.ok THEN r.val ELSE 0

\* Result::unwrap_or
unwrap_or(r, default) == IF r.ok THEN r.val ELSE default

\* std::fs::read_to_string: Err for a missing or unreadable file
read_to_string(f) == IF f.kind = "text" THEN Ok(f.text) ELSE Err

get_sidecar_port(f) ==
    LET port_str == read_to_string(f) IN
    IF port_str.ok
    THEN unwrap_or(parse_u16(trim(port_str.val)), DefaultPort)
    ELSE DefaultPort

\* ----------------------------------------------------------- file states
Missing == [kind |-> "missing", text |-> <<>>]
Unreadable == [kind |-> "unreadable", text |-> <<>>]
Text(s) == [kind |-> "text", text |-> s]

Contents == UNION {[1..n -> Alphabet] : n \in 0..MaxLen}
AllFiles == {Missing, Unreadable} \cup {Text(s) : s \in Contents}

\* contents the worker writes while the application runs
WorkerContents ==
    { <<"4", "5", "0", "2", "\n">>,
      <<"3", "0", "0", "2">>,
      <<"n", "o", "t", "-", "a", "-", "n", "u", "m", "b", "e", "r">> }

\* ------------------------------------------------------------------ Init
MenuIds == {"quit", "show", "other"}
WindowEvents == {"CloseRequested", "Focused"}

Init ==
    /\ production \in BOOLEAN
    /\ trayOk \in BOOLEAN
    /\ sidecarCreateOk \in BOOLEAN
    /\ sidecarSpawnOk \in BOOLEAN
    /\ pc = "tray"
    /\ exitCode = {}
    /\ trayBuilt = FALSE
    /\ guardInstalled = FALSE
    /\ windowExists \in BOOLEAN
    /\ visible = windowExists
    /\ focused \in {f \in BOOLEAN : f => visible}
    /\ sidecarCommands = 0
    /\ spawnCalls = 0
    /\ sidecars = 0
    /\ childHeld = FALSE
    /\ eventLog = <<>>
    /\ visLog = <<visible>>
    /\ portFile \in {Missing, Unreadable} \cup {Text(s) : s \in WorkerContents}
    /\ portResult = <<>>
    /\ callLog = <<>>

\* --------------------------------------------------------------- startup
\* a panic on the main thread (unwrap / expect) ends the process
Panic ==
    /\ pc' = "panicked"
    /\ exitCode' = {PanicExitCode}

\* lines 31-51: menu items, menu and tray icon; an Err leaves setup through
\* `?` and run()'s final expect panics
BuildTray ==
    /\ pc = "tray"
    /\ IF trayOk
       THEN /\ trayBuilt' = TRUE
            /\ pc' = "window"
            /\ UNCHANGED exitCode
       ELSE /\ Panic
            /\ UNCHANGED trayBuilt
    /\ UNCHANGED <<envVars, guardInstalled, windowVars, sidecarVars,
                   eventLog, visLog, portVars>>

\* the window lookup with `if let Some` in place of unwrap: a missing window
\* is skipped and setup goes on
InstallCloseGuard_if_let ==
    /\ pc = "window"
    /\ guardInstalled' = windowExists
    /\ pc' = "sidecar"
    /\ UNCHANGED <<envVars, exitCode, trayBuilt, windowVars, sidecarVars,
                   eventLog, visLog, portVars>>

\* the sidecar block placed before the window lookup: the worker is spawned
\* and then the unwrap panics
InstallCloseGuard_after_spawn ==
    /\ pc = "window"
    /\ IF windowExists
       THEN /\ guardInstalled' = TRUE
            /\ pc' = "sidecar"
            /\ UNCHANGED <<exitCode, sidecarVars>>
       ELSE /\ Panic
            /\ sidecarCommands' = sidecarCommands + 1
            /\ spawnCalls' = spawnCalls + 1
            /\ sidecars' = sidecars + 1
            /\ UNCHANGED <<guardInstalled, childHeld>>
    /\ UNCHANGED <<envVars, trayBuilt, windowVars, eventLog, visLog, portVars>>

\* lines 54-61: get_webview_window("main").unwrap() and on_window_event
InstallCloseGuard ==
    /\ pc = "window"
    /\ IF windowExists
       THEN /\ guardInstalled' = TRUE
            /\ pc' = "sidecar"
            /\ UNCHANGED exitCode
       ELSE /\ Panic
            /\ UNCHANGED guardInstalled
    /\ UNCHANGED <<envVars, trayBuilt, windowVars, sidecarVars,
                   eventLog, visLog, portVars>>

\* lines 65-75 compiled out: debug build
SkipSidecar ==
    /\ pc = "sidecar"
    /\ ~production
    /\ pc' = "setup_ok"
    /\ UNCHANGED <<envVars, exitCode, trayBuilt, guardInstalled, windowVars,
                   sidecarVars, eventLog, visLog, portVars>>

\* the sidecar block without its cfg attribute: it runs in every build
CreateSidecarCommand_any_build ==
    /\ pc = "sidecar"
    /\ sidecarCommands' = sidecarCommands + 1
    /\ IF sidecarCreateOk
       THEN /\ pc' = "spawn"
            /\ UNCHANGED exitCode
       ELSE Panic
    /\ UNCHANGED <<envVars, trayBuilt, guardInstalled, windowVars,
                   spawnCalls, sidecars, childHeld, eventLog, visLog, portVars>>

\* lines 67-70: shell().sidecar(..).expect(..)
CreateSidecarCommand ==
    /\ pc = "sidecar"
    /\ production
    /\ sidecarCommands' = sidecarCommands + 1
    /\ IF sidecarCreateOk
       THEN /\ pc' = "spawn"
            /\ UNCHANGED exitCode
       ELSE Panic
    /\ UNCHANGED <<envVars, trayBuilt, guardInstalled, windowVars,
                   spawnCalls, sidecars, childHeld, eventLog, visLog, portVars>>

\* spawn() with its error dropped (`.ok()`) in place of expect: startup goes
\* on without a worker
SpawnSidecar_ignore_error ==
    /\ pc = "spawn"
    /\ spawnCalls' = spawnCalls + 1
    /\ sidecars' = (IF sidecarSpawnOk THEN sidecars + 1 ELSE sidecars)
    /\ childHeld' = sidecarSpawnOk
    /\ pc' = "block_end"
    /\ UNCHANGED <<envVars, exitCode, trayBuilt, guardInstalled, windowVars,
                   sidecarCommands, eventLog, visLog, portVars>>

\* lines 72-74: let (_rx, _child) = sidecar_command.spawn().expect(..)
SpawnSidecar ==
    /\ pc = "spawn"
    /\ spawnCalls' = spawnCalls + 1
    /\ IF sidecarSpawnOk
       THEN /\ sidecars' = sidecars + 1
            /\ childHeld' = TRUE
            /\ pc' = "block_end"
            /\ UNCHANGED exitCode
       ELSE /\ Panic
            /\ UNCHANGED <<sidecars, childHeld>>
    /\ UNCHANGED <<envVars, trayBuilt, guardInstalled, windowVars,
                   sidecarCommands, eventLog, visLog, portVars>>

\* line 75: the block closes and its locals _rx and _child are dropped;
\* dropping a CommandChild does not end the worker
EndSidecarBlock ==
    /\ pc = "block_end"
    /\ childHeld' = FALSE
    /\ pc' = "setup_ok"
    /\ UNCHANGED <<envVars, exitCode, trayBuilt, guardInstalled, windowVars,
                   sidecarCommands, spawnCalls, sidecars, eventLog, visLog,
                   portVars>>

\* lines 77-79: setup returns Ok(()) and the event loop starts
SetupReturns ==
    /\ pc = "setup_ok"
    /\ pc' = "running"
    /\ UNCHANGED <<envVars, exitCode, trayBuilt, guardInstalled, windowVars,
                   sidecarVars, eventLog, visLog, portVars>>

\* ---------------------------------------------------------------- events
\* handlers that run as soon as they are registered, while setup is going on
CanHandle_during_setup ==
    pc \notin {"exited", "panicked"} /\ Len(eventLog) < MaxEvents

CanHandle == pc = "running" /\ Len(eventLog) < MaxEvents

Logged(ev) ==
    /\ eventLog' = Append(eventLog, ev)
    /\ visLog' = Append(visLog, visible')

\* the menu handler whose "show" arm calls set_focus but not show
on_menu_event_no_show(id) ==
    /\ CanHandle
    /\ trayBuilt
    /\ IF id = "quit"
       THEN /\ pc' = "exited"
            /\ exitCode' = {ExitOk}
            /\ UNCHANGED windowVars
       ELSE IF id = "show"
       THEN /\ focused' = (windowExists /\ visible)
            /\ UNCHANGED <<pc, exitCode, windowExists, visible>>
       ELSE UNCHANGED <<pc, exitCode, windowVars>>
    /\ Logged(id)
    /\ UNCHANGED <<envVars, trayBuilt, guardInstalled, sidecarVars, portVars>>

\* the menu handler whose default arm falls into the "show" arm
on_menu_event_other_shows(id) ==
    /\ CanHandle
    /\ trayBuilt
    /\ IF id = "quit"
       THEN /\ pc' = "exited"
            /\ exitCode' = {ExitOk}
            /\ UNCHANGED windowVars
       ELSE /\ IF windowExists
               THEN /\ visible' = TRUE
                    /\ focused' = TRUE
               ELSE UNCHANGED <<visible, focused>>
            /\ UNCHANGED <<pc, exitCode, windowExists>>
    /\ Logged(id)
    /\ UNCHANGED <<envVars, trayBuilt, guardInstalled, sidecarVars, portVars>>

\* the menu handler whose "quit" arm is empty
on_menu_event_quit_ignored(id) ==
    /\ CanHandle
    /\ trayBuilt
    /\ IF id = "show"
       THEN /\ IF windowExists
               THEN /\ visible' = TRUE
                    /\ focused' = TRUE
               ELSE UNCHANGED <<visible, focused>>
            /\ UNCHANGED <<pc, exitCode, windowExists>>
       ELSE UNCHANGED <<pc, exitCode, windowVars>>
    /\ Logged(id)
    /\ UNCHANGED <<envVars, trayBuilt, guardInstalled, sidecarVars, portVars>>

\* the menu handler whose "show" arm toggles the window
on_menu_event_toggle(id) ==
    /\ CanHandle
    /\ trayBuilt
    /\ IF id = "quit"
       THEN /\ pc' = "exited"
            /\ exitCode' = {ExitOk}
            /\ UNCHANGED windowVars
       ELSE IF id = "show"
       THEN /\ IF windowExists
               THEN /\ visible' = ~visible
                    /\ focused' = ~visible
               ELSE UNCHANGED <<visible, focused>>
            /\ UNCHANGED <<pc, exitCode, windowExists>>
       ELSE UNCHANGED <<pc, exitCode, windowVars>>
    /\ Logged(id)
    /\ UNCHANGED <<envVars, trayBuilt, guardInstalled, sidecarVars, portVars>>

\* the menu handler whose "quit" arm calls exit(1)
on_menu_event_exit_1(id) ==
    /\ CanHandle
    /\ trayBuilt
    /\ IF id = "quit"
       THEN /\ pc' = "exited"
            /\ exitCode' = {1}
            /\ UNCHANGED windowVars
       ELSE IF id = "show"
       THEN /\ IF windowExists
               THEN /\ visible' = TRUE
                    /\ focused' = TRUE
               ELSE UNCHANGED <<visible, focused>>
            /\ UNCHANGED <<pc, exitCode, windowExists>>
       ELSE UNCHANGED <<pc, exitCode, windowVars>>
    /\ Logged(id)
    /\ UNCHANGED <<envVars, trayBuilt, guardInstalled, sidecarVars, portVars>>

\* lines 39-50: the tray menu handler
on_menu_event(id) ==
    /\ CanHandle
    /\ trayBuilt
    /\ IF id = "quit"
       THEN /\ pc' = "exited"
            /\ exitCode' = {ExitOk}
            /\ UNCHANGED windowVars
       ELSE IF id = "show"
       THEN /\ IF windowExists
               THEN /\ visible' = TRUE
                    /\ focused' = TRUE
               ELSE UNCHANGED <<visible, focused>>
            /\ UNCHANGED <<pc, exitCode, windowExists>>
       ELSE UNCHANGED <<pc, exitCode, windowVars>>
    /\ Logged(id)
    /\ UNCHANGED <<envVars, trayBuilt, guardInstalled, sidecarVars, portVars>>

\* the window handler without prevent_close: the window is hidden and then
\* closed by the platform
on_window_event_no_prevent(event) ==
    /\ CanHandle
    /\ guardInstalled
    /\ IF event = "CloseRequested"
       THEN /\ visible' = FALSE
            /\ focused' = FALSE
            /\ windowExists' = FALSE
       ELSE UNCHANGED windowVars
    /\ Logged(event)
    /\ UNCHANGED <<envVars, pc, exitCode, trayBuilt, guardInstalled,
                   sidecarVars, portVars>>

\* the window handler without its `if let`: every window event hides
on_window_event_any_hides(event) ==
    /\ CanHandle
    /\ guardInstalled
    /\ visible' = FALSE
    /\ focused' = FALSE
    /\ UNCHANGED windowExists
    /\ Logged(event)
    /\ UNCHANGED <<envVars, pc, exitCode, trayBuilt, guardInstalled,
                   sidecarVars, portVars>>

\* the window handler that quits on close instead of hiding to the tray
on_window_event_close_exits(event) ==
    /\ CanHandle
    /\ guardInstalled
    /\ IF event = "CloseRequested"
       THEN /\ pc' = "exited"
            /\ exitCode' = {ExitOk}
       ELSE UNCHANGED <<pc, exitCode>>
    /\ UNCHANGED windowVars
    /\ Logged(event)
    /\ UNCHANGED <<envVars, trayBuilt, guardInstalled, sidecarVars, portVars>>

\* lines 56-61: the window event handler; prevent_close keeps the window
\* alive, hide takes it off screen (and so out of the foreground)
on_window_event(event) ==
    /\ CanHandle
    /\ guardInstalled
    /\ IF event = "CloseRequested"
       THEN /\ visible' = FALSE
            /\ focused' = FALSE
            /\ UNCHANGED windowExists
       ELSE UNCHANGED windowVars
    /\ Logged(event)
    /\ UNCHANGED <<envVars, pc, exitCode, trayBuilt, guardInstalled,
                   sidecarVars, portVars>>

\* the command with its result cached after the first call
InvokeGetSidecarPort_cached ==
    /\ pc = "running"
    /\ Len(callLog) < MaxCalls
    /\ portResult' = (IF portResult = <<>>
                      THEN <<get_sidecar_port(portFile)>>
                      ELSE portResult)
    /\ portFile' = portFile
    /\ callLog' = Append(callLog, [read |-> portFile, left |-> portFile',
                                   result |-> portResult'[1]])
    /\ UNCHANGED <<envVars, pc, exitCode, trayBuilt, guardInstalled,
                   windowVars, sidecarVars, eventLog, visLog>>

\* lines 7-17 invoked by the UI layer through the invoke handler (line 28)
InvokeGetSidecarPort ==
    /\ pc = "running"
    /\ Len(callLog) < MaxCalls
    /\ portResult' = <<get_sidecar_port(portFile)>>
    /\ portFile' = portFile
    /\ callLog' = Append(callLog, [read |-> portFile, left |-> portFile',
                                   result |-> portResult'[1]])
    /\ UNCHANGED <<envVars, pc, exitCode, trayBuilt, guardInstalled,
                   windowVars, sidecarVars, eventLog, visLog>>

\* the worker (spawned here in production, started out of band in
\* development) writes its port to the handshake file
WorkerWritesPort ==
    /\ production => sidecars > 0
    /\ \E s \in WorkerContents : portFile' = Text(s)
    /\ UNCHANGED <<envVars, pc, exitCode, trayBuilt, guardInstalled,
                   windowVars, sidecarVars, eventLog, visLog, portResult,
                   callLog>>

Next ==
    \/ BuildTray
    \/ InstallCloseGuard
    \/ SkipSidecar
    \/ CreateSidecarCommand
    \/ SpawnSidecar
    \/ EndSidecarBlock
    \/ SetupReturns
    \/ \E id \in MenuIds : on_menu_event(id)
    \/ \E event \in WindowEvents : on_window_event(event)
    \/ InvokeGetSidecarPort
    \/ WorkerWritesPort

Spec == Init /\ [][Next]_vars

\* ------------------------------------------- get_sidecar_port in isolation
\* a running development build and every handshake file up to MaxLen
PortInit ==
    /\ production = FALSE
    /\ trayOk = TRUE
    /\ sidecarCreateOk = TRUE
    /\ sidecarSpawnOk = TRUE
    /\ pc = "running"
    /\ exitCode = {}
    /\ trayBuilt = TRUE
    /\ guardInstalled = TRUE
    /\ windowExists = TRUE
    /\ visible = TRUE
    /\ focused = TRUE
    /\ sidecarCommands = 0
    /\ spawnCalls = 0
    /\ sidecars = 0
    /\ childHeld = FALSE
    /\ eventLog = <<>>
    /\ visLog = <<TRUE>>
    /\ portFile \in AllFiles \cup {Text(s) : s \in WorkerContents}
    /\ portResult = <<>>
    /\ callLog = <<>>

PortNext == InvokeGetSidecarPort

PortSpec == PortInit /\ [][PortNext]_vars

TypeOK ==
    /\ pc \in {"tray", "window", "sidecar", "spawn", "block_end", "setup_ok",
               "running", "exited", "panicked"}
    /\ exitCode \subseteq {ExitOk, PanicExitCode}
    /\ sidecars \in 0..1
    /\ Len(visLog) = Len(eventLog) + 1

\* ---------------------------------------------------------------- claims
LastEvent == IF eventLog = <<>> THEN "none" ELSE eventLog[Len(eventLog)]
Terminated == pc \in {"exited", "panicked"}
StartupDone == pc \in {"running", "exited", "panicked"}

\* C1: after a close request, whatever was handled before it and whether the
\* window was visible or already hidden, the main window is hidden, still
\* exists, and the host process is still running.
C1_CloseHides ==
    LastEvent = "CloseRequested" =>
        /\ visible = FALSE
        /\ windowExists
        /\ pc = "running"
        /\ exitCode = {}

\* a close request handled while the window was already hidden, after a
\* close and a show
C1_Witness ==
    /\ Len(eventLog) = 4
    /\ LastEvent = "CloseRequested"
    /\ visLog[4] = FALSE
    /\ eventLog[1] = "CloseRequested"
    /\ eventLog[2] = "show"

\* C2: every "show" leaves the window visible; a "show" handled while the
\* window is hidden leaves it visible and in the foreground; a close request
\* followed by "show" from the initial state gives visible, hidden, visible.
C2_ShowAfterHide ==
    /\ \A i \in 1..Len(eventLog) :
           (eventLog[i] = "show" /\ visLog[i] = FALSE) => visLog[i + 1] = TRUE
    /\ (LastEvent = "show" /\ visLog[Len(eventLog)] = FALSE) =>
           (visible /\ focused)
    /\ (Len(eventLog) >= 2 /\ eventLog[1] = "CloseRequested"
            /\ eventLog[2] = "show") =>
           SubSeq(visLog, 1, 3) = <<TRUE, FALSE, TRUE>>

\* the window was hidden by a close request and "show" has just been handled
C2_Witness ==
    /\ eventLog = <<"CloseRequested", "show">>
    /\ visLog = <<TRUE, FALSE, TRUE>>
    /\ focused

\* C3: "quit", handled with the window visible or hidden, ends the host
\* process with exit status 0.
C3_QuitExitsZero ==
    LastEvent = "quit" => (pc = "exited" /\ exitCode = {ExitOk})

\* "quit" handled while the window was hidden
C3_Witness ==
    /\ LastEvent = "quit"
    /\ Len(eventLog) >= 2
    /\ visLog[Len(eventLog)] = FALSE
    /\ pc = "exited"

StartupFails ==
    \/ ~trayOk
    \/ ~windowExists
    \/ production /\ (~sidecarCreateOk \/ ~sidecarSpawnOk)

\* C4 as stated: the process ends only through "quit", and only with
\* status 0; no startup step ends it.
C4_OnlyQuitTerminates ==
    Terminated => (LastEvent = "quit" /\ exitCode = {ExitOk})

\* C4 amended: once startup has completed the process ends only through
\* "quit", with status 0, and no close request, "show", unknown menu event,
\* other window event or port lookup ends it; the only other way the process
\* ends is a failing startup step, which panics before any event is handled.
C4_QuitOrStartupPanic ==
    /\ pc = "exited" => (LastEvent = "quit" /\ exitCode = {ExitOk})
    /\ pc = "panicked" =>
           /\ StartupFails
           /\ eventLog = <<>>
           /\ portResult = <<>>
           /\ exitCode = {PanicExitCode}
    /\ (eventLog # <<>> /\ LastEvent # "quit") => pc = "running"
    /\ ~Terminated => exitCode = {}

\* the process has ended through "quit" after a close request, a "show", an
\* unknown menu event and a port lookup
C4_Witness ==
    /\ pc = "exited"
    /\ eventLog = <<"CloseRequested", "show", "other", "quit">>
    /\ portResult # <<>>

\* C5 as stated: at most one worker is spawned; once startup is over a
\* production build has made exactly one spawn attempt and a development
\* build none, and handling events changes neither.
C5_ExactlyOneAttemptInProduction ==
    /\ sidecars <= 1
    /\ StartupDone =>
           /\ production => sidecarCommands = 1
           /\ ~production => (sidecarCommands = 0 /\ spawnCalls = 0)

\* C5 amended: at most one worker is ever spawned; a production build whose
\* startup reaches the spawn step makes exactly one attempt (one sidecar
\* command, and one spawn() call if the command was created), a production
\* build whose startup aborted earlier and a development build make none,
\* and no runtime event triggers a spawn.
C5_AtMostOneSpawn ==
    /\ sidecars <= 1
    /\ spawnCalls <= 1
    /\ sidecarCommands <= 1
    /\ ~production => (sidecarCommands = 0 /\ spawnCalls = 0 /\ sidecars = 0)
    /\ (production /\ StartupDone) =>
           /\ sidecarCommands = (IF trayOk /\ windowExists THEN 1 ELSE 0)
           /\ spawnCalls = (IF trayOk /\ windowExists /\ sidecarCreateOk
                            THEN 1 ELSE 0)
           /\ sidecars = (IF pc = "panicked" THEN 0 ELSE 1)

\* a production build that spawned its worker and then handled close,
\* "show", an unknown menu event, "quit" and a port lookup
C5_Witness ==
    /\ production
    /\ sidecars = 1
    /\ spawnCalls = 1
    /\ eventLog = <<"CloseRequested", "show", "other", "quit">>
    /\ portResult # <<>>

\* C6 as stated: in a production build that spawned the worker, the child
\* handle is held in every state after startup and before process exit.
C6_HandleRetained ==
    (production /\ sidecars = 1 /\ pc = "running") => childHeld

\* C7: in a production build, when creating or spawning the worker fails,
\* startup aborts with a panic, the running state is never reached, no event
\* is handled and no second attempt is made.
C7_SpawnFailureAborts ==
    (production /\ (~sidecarCreateOk \/ ~sidecarSpawnOk)) =>
        /\ pc \notin {"block_end", "setup_ok", "running", "exited"}
        /\ ~sidecarCreateOk => pc # "spawn"
        /\ (sidecarCommands = 1 /\ ~sidecarCreateOk) => pc = "panicked"
        /\ spawnCalls = 1 => pc = "panicked"
        /\ eventLog = <<>>
        /\ portResult = <<>>
        /\ sidecarCommands <= 1
        /\ spawnCalls <= 1
        /\ sidecars = 0

\* the sidecar command was created and its spawn failed
C7_Witness ==
    /\ production
    /\ sidecarCreateOk
    /\ ~sidecarSpawnOk
    /\ spawnCalls = 1
    /\ pc = "panicked"

\* C8: when the main window is not available at the point where the close
\* handler is installed, startup aborts with a panic: no handler is
\* installed, later startup steps do not run and the running state is never
\* reached.
C8_MissingWindowAborts ==
    ~windowExists =>
        /\ pc \in {"tray", "window", "panicked"}
        /\ ~guardInstalled
        /\ eventLog = <<>>
        /\ (trayBuilt /\ pc # "window") => pc = "panicked"

\* the tray was built, the window lookup failed and the process panicked
C8_Witness ==
    /\ ~windowExists
    /\ trayBuilt
    /\ pc = "panicked"

\* reference reading of a handshake file, independent of the parser:
\* positional value of a digit string
DigitChars == {"0", "1", "2", "3", "4", "5", "6", "7", "8", "9"}
DigitOf ==
    [c \in DigitChars |->
        CASE c = "0" -> 0 [] c = "1" -> 1 [] c = "2" -> 2 [] c = "3" -> 3
          [] c = "4" -> 4 [] c = "5" -> 5 [] c = "6" -> 6 [] c = "7" -> 7
          [] c = "8" -> 8 [] c = "9" -> 9]

RECURSIVE Pow10(_)
Pow10(n) == IF n = 0 THEN 1 ELSE 10 * Pow10(n - 1)

RECURSIVE SumTo(_, _)
SumTo(d, k) ==
    IF k = 0 THEN 0
    ELSE DigitOf[d[k]] * Pow10(Len(d) - k) + SumTo(d, k - 1)

PositionalValue(d) == SumTo(d, Len(d))

\* s[i..j] is a non-empty digit string and everything around it is whitespace
IsPaddedNumber(s, i, j) ==
    /\ 1 <= i /\ i <= j /\ j <= Len(s)
    /\ \A k \in 1..Len(s) :
           IF k < i \/ k > j THEN s[k] \in {" ", "\n"} ELSE s[k] \in DigitChars

\* port-file content that is a decimal integer in [0, 65535], optionally
\* surrounded by whitespace
WellFormed(s) ==
    \E i, j \in 1..Len(s) :
        IsPaddedNumber(s, i, j) /\ PositionalValue(SubSeq(s, i, j)) <= 65535

WellFormedValue(s) ==
    LET ij == CHOOSE ij \in (1..Len(s)) \X (1..Len(s)) :
                  IsPaddedNumber(s, ij[1], ij[2])
    IN PositionalValue(SubSeq(s, ij[1], ij[2]))

\* content the u16 parser accepts: a well-formed number, possibly with a
\* leading "+" directly before its digits
Parsable(s) ==
    \/ WellFormed(s)
    \/ \E i \in 1..Len(s) :
           /\ s[i] = "+"
           /\ WellFormed([k \in 1..Len(s) |-> IF k = i THEN " " ELSE s[k]])
           /\ i < Len(s)
           /\ s[i + 1] \in DigitChars
           /\ \A k \in 1..(i - 1) : s[k] \in {" ", "\n"}

\* C9: for a handshake file holding a decimal integer n in [0, 65535],
\* optionally surrounded by whitespace, get_sidecar_port returns exactly n.
C9_WellFormedPort ==
    (portResult # <<>> /\ portFile.kind = "text" /\ WellFormed(portFile.text))
        => portResult = <<WellFormedValue(portFile.text)>>

\* the file holds "4502\n" and the call returned 4502
C9_Witness ==
    /\ portFile = Text(<<"4", "5", "0", "2", "\n">>)
    /\ portResult = <<4502>>

\* C10: get_sidecar_port always returns a port: for a missing or unreadable
\* file, or content that does not parse, it returns 3001.
C10_DefaultOnFailure ==
    portResult # <<>> =>
        /\ portResult[1] \in 0..65535
        /\ (portFile.kind # "text" \/ ~Parsable(portFile.text))
               => portResult = <<3001>>

\* the file holds "not-a-number" and the call returned 3001
C10_Witness ==
    /\ portFile = Text(<<"n", "o", "t", "-", "a", "-", "n", "u", "m", "b", "e", "r">>)
    /\ portResult = <<3001>>

\* what a call must return for a given handshake file, read off the file
\* without the parser: the number it holds, or the default
ExpectedPort(f) ==
    IF f.kind # "text" THEN 3001
    ELSE IF WellFormed(f.text) THEN WellFormedValue(f.text)
    ELSE IF Parsable(f.text)
    THEN WellFormedValue([k \in 1..Len(f.text) |->
                             IF f.text[k] = "+" THEN " " ELSE f.text[k]])
    ELSE 3001

\* C11: get_sidecar_port calls, interleaved with the worker writing the
\* handshake file, never change the file, and each call returns what the
\* file held when it was read: nothing is cached from earlier calls.
C11_FreshReadOnly ==
    \A i \in 1..Len(callLog) :
        /\ callLog[i].left = callLog[i].read
        /\ callLog[i].result = ExpectedPort(callLog[i].read)

\* a call on a missing file returned 3001, the worker then wrote "4502\n",
\* and the next call returned 4502
C11_Witness ==
    /\ Len(callLog) = 2
    /\ callLog[1].read = Missing
    /\ callLog[1].result = 3001
    /\ callLog[2].read = Text(<<"4", "5", "0", "2", "\n">>)
    /\ callLog[2].result = 4502
    /\ portFile = callLog[2].read

\* C12: a menu event whose id is neither "quit" nor "show" changes nothing:
\* window visibility, focus and existence, the host's running state and the
\* sidecar stay as they were.
C12_UnknownMenuIgnored ==
    [][(eventLog' = Append(eventLog, "other")) =>
           UNCHANGED <<windowVars, pc, exitCode, sidecarVars, trayBuilt,
                       guardInstalled, portVars>>]_vars

\* an unknown menu event handled in a production build while the window was
\* hidden
C12_Witness ==
    /\ LastEvent = "other"
    /\ visLog[Len(eventLog)] = FALSE
    /\ visible = FALSE
    /\ production
    /\ sidecars = 1
    /\ pc = "running"

\* C13: the window goes from visible to hidden only in a step that handles a
\* close request, and from hidden to visible only in a step that handles
\* "show"; no other step (startup, spawn, quit, unknown menu event, other
\* window event, port lookup, worker write) changes visibility.
C13_VisibilityCauses ==
    [][/\ (visible /\ ~visible') =>
              eventLog' = Append(eventLog, "CloseRequested")
       /\ (~visible /\ visible') =>
              eventLog' = Append(eventLog, "show")]_vars

\* the window was hidden and shown twice, with a port lookup in between
C13_Witness ==
    /\ eventLog = <<"CloseRequested", "show", "CloseRequested", "show">>
    /\ visLog = <<TRUE, FALSE, TRUE, FALSE, TRUE>>
    /\ callLog # <<>>

QuitDispatched == \E i \in 1..Len(eventLog) : eventLog[i] = "quit"

\* C14: once "quit" has been handled no further menu or window event is
\* handled, and window visibility, focus and the sidecar never change again.
C14_QuitIsTerminal ==
    [][QuitDispatched =>
           UNCHANGED <<eventLog, visLog, windowVars, sidecarVars, pc,
                       exitCode>>]_vars

\* "quit" was handled in a production build with a spawned worker, after a
\* "show"
C14_Witness ==
    /\ eventLog = <<"show", "quit">>
    /\ production
    /\ sidecars = 1
    /\ pc = "exited"
    /\ visible

\* C15: startup runs tray, then close guard, then the conditional spawn, and
\* no menu or window event is handled before the spawn step has finished.
C15_StartupOrder ==
    /\ pc = "tray" => (~trayBuilt /\ ~guardInstalled /\ sidecarCommands = 0)
    /\ pc = "window" => (trayBuilt /\ ~guardInstalled /\ sidecarCommands = 0)
    /\ pc = "sidecar" => (trayBuilt /\ guardInstalled /\ sidecarCommands = 0)
    /\ guardInstalled => trayBuilt
    /\ sidecarCommands > 0 => guardInstalled
    /\ spawnCalls <= sidecarCommands
    /\ pc \in {"tray", "window", "sidecar", "spawn", "block_end", "setup_ok"}
           => eventLog = <<>>
    /\ eventLog # <<>> =>
           /\ trayBuilt
           /\ guardInstalled
           /\ production => (spawnCalls = 1 /\ sidecars = 1 /\ ~childHeld)
           /\ ~production => spawnCalls = 0

\* the first event handled by a production build, after tray, guard and
\* spawn
C15_Witness ==
    /\ Len(eventLog) = 1
    /\ production
    /\ trayBuilt
    /\ guardInstalled
    /\ sidecars = 1
    /\ pc = "running"

\* a whitespace-padded digit string whose value is above 65535
OutOfRange(s) ==
    \E i, j \in 1..Len(s) :
        IsPaddedNumber(s, i, j) /\ PositionalValue(SubSeq(s, i, j)) > 65535

\* a whitespace-padded "-" directly followed by digits
Negative(s) ==
    \E i, j \in 1..Len(s) :
        /\ s[i] = "-"
        /\ i < j
        /\ IsPaddedNumber([k \in 1..Len(s) |-> IF k = i THEN " " ELSE s[k]],
                          i + 1, j)

\* nothing but whitespace, or nothing at all
Blank(s) == \A k \in 1..Len(s) : s[k] \in {" ", "\n"}

\* C16: the value returned is always in [0, 65535]; content that is an
\* integer above 65535, a negative integer, or empty yields 3001 and never a
\* wrapped or truncated value.
C16_RangeOrDefault ==
    portResult # <<>> =>
        /\ portResult[1] >= 0
        /\ portResult[1] <= 65535
        /\ (portFile.kind = "text" /\
                (\/ OutOfRange(portFile.text)
                 \/ Negative(portFile.text)
                 \/ Blank(portFile.text)))
               => portResult[1] = 3001

\* the file holds "65536" and the call returned 3001
C16_Witness ==
    /\ portFile = Text(<<"6", "5", "5", "3", "6">>)
    /\ portResult = <<3001>>
    /\ callLog # <<>>

\* C17: a run whose startup aborts at the main-window lookup has built its
\* tray and has made no sidecar command, no spawn call and no worker.
C17_NoSpawnOnMissingWindow ==
    /\ ~windowExists => (sidecarCommands = 0 /\ spawnCalls = 0 /\ sidecars = 0)
    /\ (~windowExists /\ trayOk /\ pc = "panicked") =>
           /\ trayBuilt
           /\ ~childHeld
           /\ exitCode = {PanicExitCode}

\* a production build with a spawnable worker panicked at the window lookup
C17_Witness ==
    /\ production
    /\ sidecarCreateOk
    /\ sidecarSpawnOk
    /\ ~windowExists
    /\ trayBuilt
    /\ pc = "panicked"
    /\ sidecars = 0

\* C18: a close request handled while the window is hidden leaves it hidden
\* and a "show" handled while it is visible leaves it visible; in both cases
\* the host keeps running, the window exists and the sidecar is untouched.
C18_CloseShowIdempotent ==
    [][/\ (eventLog' = Append(eventLog, "CloseRequested") /\ ~visible) =>
              /\ ~visible'
              /\ windowExists'
              /\ pc' = "running"
              /\ exitCode' = {}
              /\ UNCHANGED sidecarVars
       /\ (eventLog' = Append(eventLog, "show") /\ visible) =>
              /\ visible'
              /\ windowExists'
              /\ pc' = "running"
              /\ exitCode' = {}
              /\ UNCHANGED sidecarVars]_vars

\* a "show" on the visible window, then two close requests in a row, in a
\* production build with its worker
C18_Witness ==
    /\ eventLog = <<"show", "CloseRequested", "CloseRequested">>
    /\ visLog = <<TRUE, TRUE, FALSE, FALSE>>
    /\ production
    /\ sidecars = 1
    /\ pc = "running"

====
